---- MODULE Spec2Model ----
(***************************************************************************)
(* The handshake of communication/src/protocol/handshake_worker.rs.        *)
(*                                                                         *)
(* Two HandshakeWorker instances, A and B, each own a read half and a      *)
(* write half of a connection.  The connection is either a direct,         *)
(* reliable, ordered link between the two workers, or it ends at an        *)
(* active attacker who holds a key pair of its own, reads everything the   *)
(* workers write and writes to them whatever it can build from what it     *)
(* has seen.  Each worker executes HandshakeWorker::run.  run suspends only *)
(* at the two awaits of timeout(try_join(send, recv)); a step of a send or *)
(* a receive that gives try_join its result includes the match on that     *)
(* result.  The identity check with the signing, and the signature check,  *)
(* are steps of their own.                                                 *)
(***************************************************************************)
EXTENDS Integers, Sequences, FiniteSets, TLC

VARIABLES
    link,     \* "direct": A and B are connected to each other; "attacker": both talk to the attacker
    worker,   \* the HandshakeWorker instances and the locals of their run
    wire,     \* wire[w]: messages written by w over the direct link, not yet carried over
    inbox,    \* inbox[w]: messages waiting at w's read half (direct link)
    eof,      \* eof[w]: the other end has closed the stream feeding w's read half
    seen,     \* random bytes the attacker has read
    sigs      \* signatures the attacker has read

vars == <<link, worker, wire, inbox, eof, seen, sigs>>

----------------------------------------------------------------------------
(* Bounds *)

\* messages a write half buffers before send stops completing
Cap == 1

\* timeout_duration, in ticks of the clock
TimeoutDuration == 2

----------------------------------------------------------------------------
(* Identities, keys and the crypto capability *)

W == {"A", "B"}

Other(w) == IF w = "A" THEN "B" ELSE "A"

MalformedKey == "malformed"
AttackerKey == "kM"
NodeKeys == {"k1", "k2"}

\* NodeId wraps a public key: equality is equality of the key
NodeId(pk) == pk

PrivateKeyOf(pk) == [secret |-> pk]

\* [0u8; 32]
ZeroBytes == "zeros"
\* what StdRng::from_entropy().fill_bytes gives the run of w: a value of its
\* own, that no other run draws and nobody knows beforehand
RandomBytes(w) == IF w = "A" THEN "rbA" ELSE "rbB"
\* random bytes the attacker draws itself
AttackerNonce == "rbM"

Hash(bytes) == <<"hash", bytes>>

SignatureOf(pk, h) == [signer |-> pk, hash |-> h]
NoSignature == [signer |-> "none", hash |-> Hash(ZeroBytes)]
\* the bytes of sig with some bit flipped: nobody's signature over anything
Corrupt(sig) == [signer |-> "corrupt", hash |-> sig.hash]

\* SignatureEngine::sign(hash, private_key) -> Result<Signature>
Sign(h, sk) ==
    IF sk.secret = MalformedKey
    THEN [ok |-> FALSE, signature |-> NoSignature]
    ELSE [ok |-> TRUE, signature |-> SignatureOf(sk.secret, h)]

\* SignatureEngine::verify(hash, signature, public_key) -> Result<bool>
Verify(h, sig, pk) ==
    IF pk = MalformedKey
    THEN [ok |-> FALSE, valid |-> FALSE]
    ELSE [ok |-> TRUE, valid |-> (sig.signer = pk /\ sig.hash = h)]

----------------------------------------------------------------------------
(* Messages *)

HandshakeInitiation(pk, rb) ==
    [type |-> "HandshakeInitiation", public_key |-> pk, random_bytes |-> rb,
     signature |-> NoSignature]

HandshakeReply(sig) ==
    [type |-> "HandshakeReply", public_key |-> "none", random_bytes |-> ZeroBytes,
     signature |-> sig]

\* any other variant of Message
OtherMessage ==
    [type |-> "Other", public_key |-> "none", random_bytes |-> ZeroBytes,
     signature |-> NoSignature]

NoMessage ==
    [type |-> "none", public_key |-> "none", random_bytes |-> ZeroBytes,
     signature |-> NoSignature]

----------------------------------------------------------------------------
(* The worker *)

ReadBinder(w) == [half |-> "read", conn |-> w]
WriteBinder(w) == [half |-> "write", conn |-> w]
NoBinder == [half |-> "none", conn |-> "none"]

NoResult == [kind |-> "none", node_id |-> "none", reader |-> NoBinder, writer |-> NoBinder]

\* HandshakeWorker::new, and the locals of run before run starts
HandshakeWorker(w, pk) ==
    [reader |-> ReadBinder(w),
     writer |-> WriteBinder(w),
     self_node_id |-> NodeId(pk),
     private_key |-> PrivateKeyOf(pk),
     pc |-> "Init",
     self_random_bytes |-> ZeroBytes,
     send |-> "idle",
     recv |-> "idle",
     item |-> NoMessage,
     other_node_id |-> "none",
     other_random_bytes |-> ZeroBytes,
     self_signature |-> NoSignature,
     other_signature |-> NoSignature,
     result |-> NoResult,
     failed_in |-> "none",
     items |-> <<>>,
     sent |-> <<>>,
     rcvd |-> <<>>,
     signed |-> {},
     verified |-> {},
     elapsed |-> 0,
     age |-> 0]

\* return Err(e): the worker, its binders and the locals of run are dropped;
\* what stays is the result and the record of what the run did (failed_in,
\* how send and receive stood, the variants sent and received, the calls of
\* sign and verify)
Err(wk, kind) ==
    [wk EXCEPT !.result = [NoResult EXCEPT !.kind = kind],
               !.failed_in = wk.pc,
               !.pc = "Failed",
               !.reader = NoBinder,
               !.writer = NoBinder,
               !.private_key = PrivateKeyOf("none"),
               !.self_random_bytes = ZeroBytes,
               !.item = NoMessage,
               !.items = <<>>,
               !.other_node_id = "none",
               !.other_random_bytes = ZeroBytes,
               !.self_signature = NoSignature,
               !.other_signature = NoSignature]

InRound(w) == worker[w].pc \in {"Round1", "Round2"}

Terminal(w) == worker[w].pc \in {"Authenticated", "Failed"}

\* the connections looked at: two nodes, one node dialling itself, a node whose
\* private key the signature engine rejects, and two nodes dialled by the attacker
Configurations ==
    {[link |-> "direct", A |-> "k1", B |-> "k2"],
     [link |-> "direct", A |-> "k2", B |-> "k1"],
     [link |-> "direct", A |-> "k1", B |-> "k1"],
     [link |-> "direct", A |-> "k1", B |-> MalformedKey],
     [link |-> "attacker", A |-> "k1", B |-> "k2"]}

Init ==
    /\ \E c \in Configurations :
          /\ link = c.link
          /\ worker = [w \in W |-> HandshakeWorker(w, IF w = "A" THEN c.A ELSE c.B)]
    /\ wire = [w \in W |-> <<>>]
    /\ inbox = [w \in W |-> <<>>]
    /\ eof = [w \in W |-> FALSE]
    /\ seen = {}
    /\ sigs = {}

\* run, up to the first await: draw the random bytes, start send and receive of round 1
Start(w) ==
    /\ worker[w].pc = "Init"
    /\ worker' = [worker EXCEPT ![w] =
                     [@ EXCEPT !.pc = "Round1",
                               !.self_random_bytes = RandomBytes(w),
                               !.send = "pending",
                               !.recv = "pending"]]
    /\ UNCHANGED <<link, wire, inbox, eof, seen, sigs>>

\* the error try_join returns: the send is polled first
JoinError(wk) == IF wk.send = "failed" THEN "SendError" ELSE "RecvError"

\* AfterRound1 without the arm for the other variants: whatever message came
\* is read as an initiation
AfterRound1_NoVariantCheck(wk) ==
    IF wk.send = "failed" \/ wk.recv = "failed" THEN Err(wk, JoinError(wk))
    ELSE IF wk.recv = "eof" THEN Err(wk, "HandshakeInterruptionError")
    ELSE [wk EXCEPT !.pc = "IdentityCheck",
                    !.other_node_id = NodeId(wk.item.public_key),
                    !.other_random_bytes = wk.item.random_bytes]

\* the match on the result of round 1
AfterRound1(wk) ==
    IF wk.send = "failed" \/ wk.recv = "failed" THEN Err(wk, JoinError(wk))
    ELSE IF wk.recv = "eof" THEN Err(wk, "HandshakeInterruptionError")
    ELSE IF wk.item.type = "HandshakeInitiation"
         THEN [wk EXCEPT !.pc = "IdentityCheck",
                         !.other_node_id = NodeId(wk.item.public_key),
                         !.other_random_bytes = wk.item.random_bytes]
         ELSE Err(wk, "HandshakeWrongMessageError")

\* AfterIdentityCheck without the comparison of the node ids
AfterIdentityCheck_NoComparison(wk) ==
    LET other_random_hash == Hash(wk.other_random_bytes)
        s == Sign(other_random_hash, wk.private_key)
        called == [wk EXCEPT !.signed = @ \cup {[hash |-> other_random_hash,
                                                 key |-> wk.private_key,
                                                 peer |-> wk.other_node_id]}]
    IN  IF ~s.ok THEN Err(called, "CryptoError")
        ELSE [called EXCEPT !.pc = "Round2",
                            !.self_signature = s.signature,
                            !.send = "pending",
                            !.recv = "pending",
                            !.item = NoMessage,
                            !.elapsed = 0]

\* AfterIdentityCheck, with round 2 under what is left of the deadline of round 1
AfterIdentityCheck_SharedDeadline(wk) ==
    IF wk.other_node_id = wk.self_node_id THEN Err(wk, "HandshakeKeyError")
    ELSE LET other_random_hash == Hash(wk.other_random_bytes)
             s == Sign(other_random_hash, wk.private_key)
             called == [wk EXCEPT !.signed = @ \cup {[hash |-> other_random_hash,
                                                      key |-> wk.private_key,
                                                      peer |-> wk.other_node_id]}]
         IN  IF ~s.ok THEN Err(called, "CryptoError")
             ELSE [called EXCEPT !.pc = "Round2",
                                 !.self_signature = s.signature,
                                 !.send = "pending",
                                 !.recv = "pending",
                                 !.item = NoMessage]

\* AfterIdentityCheck, signing before the node ids are compared
AfterIdentityCheck_SignsFirst(wk) ==
    LET other_random_hash == Hash(wk.other_random_bytes)
        s == Sign(other_random_hash, wk.private_key)
        called == [wk EXCEPT !.signed = @ \cup {[hash |-> other_random_hash,
                                                 key |-> wk.private_key,
                                                 peer |-> wk.other_node_id]}]
    IN  IF ~s.ok THEN Err(called, "CryptoError")
        ELSE IF wk.other_node_id = wk.self_node_id THEN Err(called, "HandshakeKeyError")
        ELSE [called EXCEPT !.pc = "Round2",
                            !.self_signature = s.signature,
                            !.send = "pending",
                            !.recv = "pending",
                            !.item = NoMessage,
                            !.elapsed = 0]

\* AfterIdentityCheck, signing the hash of the own random bytes instead of the peer's
AfterIdentityCheck_SignsOwnBytes(wk) ==
    IF wk.other_node_id = wk.self_node_id THEN Err(wk, "HandshakeKeyError")
    ELSE LET s == Sign(Hash(wk.self_random_bytes), wk.private_key)
             called == [wk EXCEPT !.signed = @ \cup {[hash |-> Hash(wk.self_random_bytes),
                                                      key |-> wk.private_key,
                                                      peer |-> wk.other_node_id]}]
         IN  IF ~s.ok THEN Err(called, "CryptoError")
             ELSE [called EXCEPT !.pc = "Round2",
                                 !.self_signature = s.signature,
                                 !.send = "pending",
                                 !.recv = "pending",
                                 !.item = NoMessage,
                                 !.elapsed = 0]

\* the identity check, then sign the peer's random bytes and start send and
\* receive of round 2
AfterIdentityCheck(wk) ==
    IF wk.other_node_id = wk.self_node_id THEN Err(wk, "HandshakeKeyError")
    ELSE LET other_random_hash == Hash(wk.other_random_bytes)
             s == Sign(other_random_hash, wk.private_key)
             called == [wk EXCEPT !.signed = @ \cup {[hash |-> other_random_hash,
                                                      key |-> wk.private_key,
                                                      peer |-> wk.other_node_id]}]
         IN  IF ~s.ok THEN Err(called, "CryptoError")
             ELSE [called EXCEPT !.pc = "Round2",
                                 !.self_signature = s.signature,
                                 !.send = "pending",
                                 !.recv = "pending",
                                 !.item = NoMessage,
                                 !.elapsed = 0]

\* AfterRound2, reading on when the message is not a HandshakeReply
AfterRound2_ReadsOn(wk) ==
    IF wk.send = "failed" \/ wk.recv = "failed" THEN Err(wk, JoinError(wk))
    ELSE IF wk.recv = "eof" THEN Err(wk, "HandshakeInterruptionError")
    ELSE IF wk.item.type = "HandshakeReply"
         THEN [wk EXCEPT !.pc = "SignatureCheck",
                         !.other_signature = wk.item.signature]
         ELSE [wk EXCEPT !.recv = "pending", !.item = NoMessage]

\* AfterRound2 with None falling into the arm for the other variants
AfterRound2_NoneAsWrongMessage(wk) ==
    IF wk.send = "failed" \/ wk.recv = "failed" THEN Err(wk, JoinError(wk))
    ELSE IF wk.recv = "msg" /\ wk.item.type = "HandshakeReply"
         THEN [wk EXCEPT !.pc = "SignatureCheck",
                         !.other_signature = wk.item.signature]
         ELSE Err(wk, "HandshakeWrongMessageError")

\* the match on the result of round 2
AfterRound2(wk) ==
    IF wk.send = "failed" \/ wk.recv = "failed" THEN Err(wk, JoinError(wk))
    ELSE IF wk.recv = "eof" THEN Err(wk, "HandshakeInterruptionError")
    ELSE IF wk.item.type = "HandshakeReply"
         THEN [wk EXCEPT !.pc = "SignatureCheck",
                         !.other_signature = wk.item.signature]
         ELSE Err(wk, "HandshakeWrongMessageError")

\* the Ok that run returns
Authenticated(wk) ==
    [wk EXCEPT !.pc = "Authenticated",
               !.result = [kind |-> "Ok",
                           node_id |-> wk.other_node_id,
                           reader |-> wk.reader,
                           writer |-> wk.writer],
               !.reader = NoBinder,
               !.writer = NoBinder]

\* the record of a call of verify
VerifyCall(h, sig, pk) ==
    [hash |-> h, signature |-> sig, public_key |-> pk,
     ok |-> Verify(h, sig, pk).ok, valid |-> Verify(h, sig, pk).valid]

\* AfterSignatureCheck, verifying against the hash of the peer's random bytes
AfterSignatureCheck_PeerBytes(wk) ==
    LET other_random_hash == Hash(wk.other_random_bytes)
        v == Verify(other_random_hash, wk.other_signature, wk.other_node_id)
        called == [wk EXCEPT !.verified = @ \cup
                      {VerifyCall(other_random_hash, wk.other_signature, wk.other_node_id)}]
    IN  IF ~v.ok THEN Err(called, "CryptoError")
        ELSE IF ~v.valid THEN Err(called, "HandshakeInvalidSignatureError")
        ELSE Authenticated(called)

\* AfterSignatureCheck, dropping the verdict of verify
AfterSignatureCheck_VerdictDropped(wk) ==
    LET self_random_hash == Hash(wk.self_random_bytes)
        v == Verify(self_random_hash, wk.other_signature, wk.other_node_id)
        called == [wk EXCEPT !.verified = @ \cup
                      {VerifyCall(self_random_hash, wk.other_signature, wk.other_node_id)}]
    IN  IF ~v.ok THEN Err(called, "CryptoError")
        ELSE Authenticated(called)

\* AfterSignatureCheck, taking an error of verify for false
AfterSignatureCheck_ErrorAsFalse(wk) ==
    LET self_random_hash == Hash(wk.self_random_bytes)
        v == Verify(self_random_hash, wk.other_signature, wk.other_node_id)
        called == [wk EXCEPT !.verified = @ \cup
                      {VerifyCall(self_random_hash, wk.other_signature, wk.other_node_id)}]
    IN  IF ~v.ok \/ ~v.valid THEN Err(called, "HandshakeInvalidSignatureError")
        ELSE Authenticated(called)

\* AfterSignatureCheck, taking an error of verify for "not verified, accepted"
AfterSignatureCheck_FailOpen(wk) ==
    LET self_random_hash == Hash(wk.self_random_bytes)
        v == Verify(self_random_hash, wk.other_signature, wk.other_node_id)
        called == [wk EXCEPT !.verified = @ \cup
                      {VerifyCall(self_random_hash, wk.other_signature, wk.other_node_id)}]
    IN  IF v.ok /\ ~v.valid THEN Err(called, "HandshakeInvalidSignatureError")
        ELSE Authenticated(called)

\* check the peer's signature and return
AfterSignatureCheck(wk) ==
    LET self_random_hash == Hash(wk.self_random_bytes)
        v == Verify(self_random_hash, wk.other_signature, wk.other_node_id)
        called == [wk EXCEPT !.verified = @ \cup
                      {VerifyCall(self_random_hash, wk.other_signature, wk.other_node_id)}]
    IN  IF ~v.ok THEN Err(called, "CryptoError")
        ELSE IF ~v.valid THEN Err(called, "HandshakeInvalidSignatureError")
        ELSE Authenticated(called)

\* Ready, as if the two futures were joined with join: an error of one is only
\* seen once the other is done too
Ready_BothDone(wk) ==
    /\ wk.send \in {"failed", "done"}
    /\ wk.recv \in {"failed", "msg", "eof"}

\* Ready, as if the two futures were raced: either one being done is a result
Ready_EitherDone(wk) ==
    \/ wk.send \in {"failed", "done"}
    \/ wk.recv \in {"failed", "msg", "eof"}

\* try_join(send, recv) has a result: an error of either, or both are done
Ready(wk) ==
    \/ wk.send = "failed"
    \/ wk.recv = "failed"
    \/ wk.send = "done" /\ wk.recv \in {"msg", "eof"}

\* the task is polled after a step of send or receive: as soon as try_join
\* has a result, run goes on to the match on it without suspending
Poll(wk) ==
    IF ~Ready(wk) THEN wk
    ELSE IF wk.pc = "Round1" THEN AfterRound1(wk)
    ELSE AfterRound2(wk)

\* the message the pending send of the round carries
Outgoing(w) ==
    IF worker[w].pc = "Round1"
    THEN HandshakeInitiation(worker[w].self_node_id, worker[w].self_random_bytes)
    ELSE HandshakeReply(worker[w].self_signature)

\* writer.send(msg) completes: the message is on the wire to the peer, or in
\* the hands of the attacker
SendComplete(w) ==
    /\ InRound(w)
    /\ worker[w].send = "pending"
    /\ worker' = [worker EXCEPT ![w] =
                     Poll([@ EXCEPT !.send = "done",
                                    !.sent = Append(@, Outgoing(w).type)])]
    /\ IF link = "direct"
       THEN /\ Len(wire[w]) < Cap
            /\ wire' = [wire EXCEPT ![w] = Append(@, Outgoing(w))]
            /\ UNCHANGED <<seen, sigs>>
       ELSE /\ link = "attacker"
            /\ seen' = IF Outgoing(w).type = "HandshakeInitiation"
                       THEN seen \cup {Outgoing(w).random_bytes} ELSE seen
            /\ sigs' = IF Outgoing(w).type = "HandshakeReply"
                       THEN sigs \cup {Outgoing(w).signature} ELSE sigs
            /\ UNCHANGED wire
    /\ UNCHANGED <<link, inbox, eof>>

\* writer.send(msg) returns an error
SendFail(w) ==
    /\ InRound(w)
    /\ worker[w].send = "pending"
    /\ worker' = [worker EXCEPT ![w] = Poll([@ EXCEPT !.send = "failed"])]
    /\ UNCHANGED <<link, wire, inbox, eof, seen, sigs>>

\* Receiving, as if run awaited the send before it polled the receive
Receiving_AfterSend(wk) == wk.send = "done" /\ wk.recv = "pending"

\* try_join polls reader.next() of the round whatever the state of the send
Receiving(wk) == wk.recv = "pending"

\* what reader.next() hands to run: a message
Received(wk, m) ==
    [wk EXCEPT !.recv = "msg",
               !.item = m,
               !.items = Append(@, m),
               !.rcvd = Append(@, m.type)]

\* reader.next() yields the next message of the direct link, or None at the
\* end of the stream
RecvNext(w) ==
    /\ link = "direct"
    /\ InRound(w)
    /\ Receiving(worker[w])
    /\ IF inbox[w] # <<>>
       THEN /\ worker' = [worker EXCEPT ![w] = Poll(Received(@, Head(inbox[w])))]
            /\ inbox' = [inbox EXCEPT ![w] = Tail(@)]
       ELSE /\ eof[w]
            /\ worker' = [worker EXCEPT ![w] = Poll([@ EXCEPT !.recv = "eof"])]
            /\ UNCHANGED inbox
    /\ UNCHANGED <<link, wire, eof, seen, sigs>>

\* reader.next() returns an error
RecvFail(w) ==
    /\ InRound(w)
    /\ Receiving(worker[w])
    /\ worker' = [worker EXCEPT ![w] = Poll([@ EXCEPT !.recv = "failed"])]
    /\ UNCHANGED <<link, wire, inbox, eof, seen, sigs>>

\* Timeout, with one deadline around the whole of run
Timeout_WholeRun(w) ==
    /\ worker[w].pc \in {"Round1", "IdentityCheck", "Round2", "SignatureCheck"}
    /\ worker' = [worker EXCEPT ![w] = Err(@, "HandshakeTimeoutError")]
    /\ UNCHANGED <<link, wire, inbox, eof, seen, sigs>>

\* Timeout, with only round 1 under a deadline
Timeout_Round1Only(w) ==
    /\ worker[w].pc = "Round1"
    /\ worker' = [worker EXCEPT ![w] = Err(@, "HandshakeTimeoutError")]
    /\ UNCHANGED <<link, wire, inbox, eof, seen, sigs>>

\* the deadline of the round elapses before try_join has a result
Timeout(w) ==
    /\ InRound(w)
    /\ worker' = [worker EXCEPT ![w] = Err(@, "HandshakeTimeoutError")]
    /\ UNCHANGED <<link, wire, inbox, eof, seen, sigs>>

\* the deadline of the round elapses on the clock: timeout_duration after
\* the timeout of the round was created
Expire(w) ==
    /\ worker[w].elapsed = TimeoutDuration
    /\ Timeout(w)

\* the clock ticks: the timer of every run that is in a round advances; a
\* deadline that is reached fires before the next tick, and the code between
\* the awaits takes no time
Tick ==
    /\ \E w \in W : InRound(w)
    /\ \A w \in W :
          /\ InRound(w) => worker[w].elapsed < TimeoutDuration
          /\ worker[w].pc \notin {"IdentityCheck", "SignatureCheck"}
    /\ worker' = [w \in W |->
                     IF InRound(w)
                     THEN [worker[w] EXCEPT !.elapsed = @ + 1, !.age = @ + 1]
                     ELSE worker[w]]
    /\ UNCHANGED <<link, wire, inbox, eof, seen, sigs>>

\* run compares the node ids and signs (the values run holds when it calls
\* sign are a state of the model)
IdentityCheck(w) ==
    /\ worker[w].pc = "IdentityCheck"
    /\ worker' = [worker EXCEPT ![w] = AfterIdentityCheck(@)]
    /\ UNCHANGED <<link, wire, inbox, eof, seen, sigs>>

\* run verifies the peer's signature and returns (the values run holds when
\* it calls verify are a state of the model)
SignatureCheck(w) ==
    /\ worker[w].pc = "SignatureCheck"
    /\ worker' = [worker EXCEPT ![w] = AfterSignatureCheck(@)]
    /\ UNCHANGED <<link, wire, inbox, eof, seen, sigs>>

----------------------------------------------------------------------------
(* The transport between two workers *)

\* the reliable ordered link carries the oldest written message to the peer's read half
Deliver(w) ==
    /\ link = "direct"
    /\ wire[w] # <<>>
    /\ Len(inbox[Other(w)]) < Cap
    /\ inbox' = [inbox EXCEPT ![Other(w)] = Append(@, Head(wire[w]))]
    /\ wire' = [wire EXCEPT ![w] = Tail(@)]
    /\ UNCHANGED <<link, worker, eof, seen, sigs>>

\* a run that returned Err dropped its write half: the peer's stream ends
\* after what was written
PeerDropped(w) ==
    /\ link = "direct"
    /\ ~eof[w]
    /\ worker[Other(w)].pc = "Failed"
    /\ wire[Other(w)] = <<>>
    /\ eof' = [eof EXCEPT ![w] = TRUE]
    /\ UNCHANGED <<link, worker, wire, inbox, seen, sigs>>

\* a channel without a buffer: writer.send(msg) of w completes in the very
\* step in which reader.next() of the peer yields the message
Rendezvous(w) ==
    /\ link = "rendezvous"
    /\ InRound(w)
    /\ worker[w].send = "pending"
    /\ InRound(Other(w))
    /\ Receiving(worker[Other(w)])
    /\ worker' = [worker EXCEPT
                     ![w] = Poll([@ EXCEPT !.send = "done",
                                           !.sent = Append(@, Outgoing(w).type)]),
                     ![Other(w)] = Poll(Received(@, Outgoing(w)))]
    /\ UNCHANGED <<link, wire, inbox, eof, seen, sigs>>

----------------------------------------------------------------------------
(* The attacker *)

\* random bytes the attacker can put into a message
KnownNonces == seen \cup {AttackerNonce}

\* signatures the attacker has read, and its own over the random bytes it has read
KnownSignatures == sigs \cup {SignatureOf(AttackerKey, Hash(n)) : n \in seen}

\* the attacker claims any node's key or its own
ClaimableKeys == NodeKeys \cup {AttackerKey}

\* what the attacker writes: an initiation with a claimed key and random bytes
\* it knows, or with bytes that are no key; a reply with a signature it knows
\* or with a signature it has read and flipped a bit of; another variant
AttackerMessages ==
    {HandshakeInitiation(pk, rb) : pk \in ClaimableKeys, rb \in KnownNonces}
    \cup {HandshakeInitiation(MalformedKey, AttackerNonce)}
    \cup {HandshakeReply(s) : s \in KnownSignatures}
    \cup {HandshakeReply(Corrupt(s)) : s \in sigs}
    \cup {OtherMessage}

\* reader.next() yields a message the attacker wrote
AttackerSend(w) ==
    /\ link = "attacker"
    /\ InRound(w)
    /\ Receiving(worker[w])
    /\ \E m \in AttackerMessages :
          worker' = [worker EXCEPT ![w] = Poll(Received(@, m))]
    /\ UNCHANGED <<link, wire, inbox, eof, seen, sigs>>

\* reader.next() yields None: the attacker closed the stream
AttackerClose(w) ==
    /\ link = "attacker"
    /\ InRound(w)
    /\ Receiving(worker[w])
    /\ worker' = [worker EXCEPT ![w] = Poll([@ EXCEPT !.recv = "eof"])]
    /\ eof' = [eof EXCEPT ![w] = TRUE]
    /\ UNCHANGED <<link, wire, inbox, seen, sigs>>

----------------------------------------------------------------------------
(* Specifications *)

Next ==
    \E w \in W :
        \/ Start(w)
        \/ SendComplete(w)
        \/ SendFail(w)
        \/ RecvNext(w)
        \/ RecvFail(w)
        \/ Timeout(w)
        \/ IdentityCheck(w)
        \/ SignatureCheck(w)
        \/ Deliver(w)
        \/ PeerDropped(w)
        \/ AttackerSend(w)
        \/ AttackerClose(w)

Spec == Init /\ [][Next]_vars

\* Spec, with the round timer firing and the task of run being scheduled
\* (at most one of the three is enabled for a worker at a time)
FairSpec ==
    /\ Spec
    /\ \A w \in W : WF_vars(Timeout(w) \/ IdentityCheck(w) \/ SignatureCheck(w))

\* two nodes with distinct key pairs on a direct link
InitPair ==
    /\ Init
    /\ link = "direct"
    /\ \A w \in W : worker[w].self_node_id \in NodeKeys
    /\ worker["A"].self_node_id # worker["B"].self_node_id

\* no timer expiry, no transport error
NextPair ==
    \E w \in W :
        \/ Start(w)
        \/ SendComplete(w)
        \/ RecvNext(w)
        \/ IdentityCheck(w)
        \/ SignatureCheck(w)
        \/ Deliver(w)

\* both runs are started, the tasks are scheduled and the link carries what is written
PairSpec ==
    /\ InitPair
    /\ [][NextPair]_vars
    /\ \A w \in W : WF_vars(Start(w))
    /\ \A w \in W : WF_vars(SendComplete(w))
    /\ \A w \in W : WF_vars(RecvNext(w))
    /\ \A w \in W : WF_vars(IdentityCheck(w) \/ SignatureCheck(w))
    /\ \A w \in W : WF_vars(Deliver(w))

\* two nodes with distinct key pairs on a buffered link or on a channel
\* without a buffer
InitChannel ==
    /\ link \in {"direct", "rendezvous"}
    /\ \E ka, kb \in NodeKeys :
          /\ ka # kb
          /\ worker = [w \in W |-> HandshakeWorker(w, IF w = "A" THEN ka ELSE kb)]
    /\ wire = [w \in W |-> <<>>]
    /\ inbox = [w \in W |-> <<>>]
    /\ eof = [w \in W |-> FALSE]
    /\ seen = {}
    /\ sigs = {}

\* no timer expiry, no transport error
NextChannel ==
    \E w \in W :
        \/ Start(w)
        \/ SendComplete(w)
        \/ RecvNext(w)
        \/ IdentityCheck(w)
        \/ SignatureCheck(w)
        \/ Deliver(w)
        \/ Rendezvous(w)

\* both runs are started, the tasks are scheduled and the channel carries
\* what is written
ChannelSpec ==
    /\ InitChannel
    /\ [][NextChannel]_vars
    /\ \A w \in W : WF_vars(Start(w))
    /\ \A w \in W : WF_vars(SendComplete(w) \/ Rendezvous(w))
    /\ \A w \in W : WF_vars(RecvNext(w))
    /\ \A w \in W : WF_vars(IdentityCheck(w) \/ SignatureCheck(w))
    /\ \A w \in W : WF_vars(Deliver(w))

\* two workers on a link, with a clock: a round times out when its deadline
\* is reached
NextTimed ==
    \/ Tick
    \/ \E w \in W :
          \/ Start(w)
          \/ SendComplete(w)
          \/ SendFail(w)
          \/ RecvNext(w)
          \/ RecvFail(w)
          \/ Expire(w)
          \/ IdentityCheck(w)
          \/ SignatureCheck(w)
          \/ Deliver(w)
          \/ PeerDropped(w)

\* the connections between two workers
InitTimed ==
    /\ Init
    /\ link = "direct"

TimedSpec == InitTimed /\ [][NextTimed]_vars

----------------------------------------------------------------------------
(* Claims *)

\* C1: two nodes with distinct key pairs on a reliable ordered link, with no
\* timer expiry and no transport or crypto error: both runs end Ok, each
\* carrying the node id of the other.
C1_SymmetricSuccess ==
    <>[](\A w \in W :
            /\ worker[w].pc = "Authenticated"
            /\ worker[w].result.kind = "Ok"
            /\ worker[w].result.node_id = worker[Other(w)].self_node_id)

C1_Witness ==
    \A w \in W :
        /\ worker[w].pc = "Authenticated"
        /\ worker[w].result.node_id = worker[Other(w)].self_node_id
        /\ worker[w].sent = <<"HandshakeInitiation", "HandshakeReply">>

\* C2: a run that ends Authenticated reporting the identity P of a node
\* accepted a signature that P produced in a run whose peer is this very
\* node, also when the attacker relays between concurrent handshakes.
C2_NoReplay ==
    \A w \in W :
        (worker[w].pc = "Authenticated" /\ worker[w].result.node_id \in NodeKeys)
        => \E p \in W \ {w} :
              /\ worker[p].self_node_id = worker[w].result.node_id
              /\ \E call \in worker[p].signed :
                    /\ worker[w].other_signature = SignatureOf(call.key.secret, call.hash)
                    /\ call.peer = worker[w].self_node_id


C3_Witness ==
    \E w \in W :
        /\ worker[w].pc = "Authenticated"
        /\ worker[w].signed # {}
        /\ \E call \in worker[w].verified : call.ok /\ call.valid

\* C3: sign is only called on the hash of the random bytes of the
\* HandshakeInitiation received in round 1, with the own private key; verify
\* only on the hash of the own random bytes of this run, with the signature
\* received in round 2 and the public key claimed in round 1; the run is
\* Authenticated only if that call returned true, and returns that key.
C3_CryptoCalls ==
    [][\A w \in W :
          LET wk == worker[w]
              wk2 == worker'[w]
          IN  /\ wk2.signed # wk.signed =>
                    /\ wk.pc = "IdentityCheck"
                    /\ wk.signed = {}
                    /\ Len(wk.items) = 1
                    /\ wk.items[1].type = "HandshakeInitiation"
                    /\ wk2.signed = {[hash |-> Hash(wk.items[1].random_bytes),
                                      key |-> PrivateKeyOf(wk.self_node_id),
                                      peer |-> wk.items[1].public_key]}
              /\ wk2.verified # wk.verified =>
                    /\ wk.pc = "SignatureCheck"
                    /\ wk.verified = {}
                    /\ Len(wk.items) = 2
                    /\ wk.items[2].type = "HandshakeReply"
                    /\ wk.self_random_bytes = RandomBytes(w)
                    /\ \E ok, valid \in BOOLEAN :
                          wk2.verified = {[hash |-> Hash(wk.self_random_bytes),
                                           signature |-> wk.items[2].signature,
                                           public_key |-> wk.items[1].public_key,
                                           ok |-> ok, valid |-> valid]}
              /\ (wk.pc \notin {"Init", "Failed"} /\ wk2.pc # "Failed") =>
                    wk2.self_random_bytes = wk.self_random_bytes
              /\ (wk2.pc = "Authenticated" /\ wk.pc # "Authenticated") =>
                    /\ wk2.verified # wk.verified
                    /\ \A call \in wk2.verified : call.ok /\ call.valid
                    /\ wk2.result.node_id = wk.items[1].public_key
      ]_vars

C4_Witness ==
    \E w \in W :
        /\ link = "direct"
        /\ worker[w].self_node_id = worker[Other(w)].self_node_id
        /\ worker[w].pc = "Failed"
        /\ worker[w].result.kind = "HandshakeKeyError"

\* C4: when the public key received in round 1 is the own one and round 1
\* has succeeded, the run ends with HandshakeKeyError and with nothing else;
\* it never gets past the identity check.
C4_SelfConnection ==
    [][\A w \in W :
          LET wk == worker[w]
              wk2 == worker'[w]
          IN  /\ (/\ wk.pc = "IdentityCheck"
                  /\ wk.items[1].public_key = wk.self_node_id
                  /\ wk2 # wk)
                 => /\ wk2.pc = "Failed"
                    /\ wk2.result.kind = "HandshakeKeyError"
                    /\ wk2.failed_in = "IdentityCheck"
              /\ (/\ wk2.items # <<>>
                  /\ wk2.items[1].type = "HandshakeInitiation"
                  /\ wk2.items[1].public_key = wk2.self_node_id)
                 => wk2.pc \in {"Round1", "IdentityCheck"}
      ]_vars

C5_Witness ==
    \E w \in W :
        /\ worker[w].pc = "Failed"
        /\ worker[w].rcvd = <<"HandshakeReply">>
        /\ worker[w].send = "done"
        /\ worker[w].result.kind = "HandshakeWrongMessageError"

\* C5 as claimed: once the first message received is a HandshakeReply the
\* run fails with HandshakeWrongMessageError, however the send of round 1 stands.
C5_Original ==
    \A w \in W :
        (/\ worker[w].pc = "Failed"
         /\ worker[w].rcvd # <<>>
         /\ worker[w].rcvd[1] = "HandshakeReply")
        => worker[w].result.kind = "HandshakeWrongMessageError"

\* C5, amended: once the first message received is a HandshakeReply the run
\* never calls sign or verify and fails in round 1: with
\* HandshakeWrongMessageError when the send of round 1 has completed, with
\* the error of the send when the send fails, with HandshakeTimeoutError
\* when the send is still pending at the deadline.
C5_WrongFirstMessage ==
    \A w \in W :
        (worker[w].rcvd # <<>> /\ worker[w].rcvd[1] = "HandshakeReply")
        => /\ worker[w].signed = {}
           /\ worker[w].verified = {}
           /\ worker[w].pc \in {"Round1", "Failed"}
           /\ worker[w].pc = "Round1" => worker[w].send = "pending"
           /\ worker[w].pc = "Failed" =>
                 /\ worker[w].failed_in = "Round1"
                 /\ worker[w].send = "done" =>
                       worker[w].result.kind = "HandshakeWrongMessageError"
                 /\ worker[w].send = "failed" =>
                       worker[w].result.kind = "SendError"
                 /\ worker[w].send = "pending" =>
                       worker[w].result.kind = "HandshakeTimeoutError"

C6_Witness ==
    \E w \in W :
        /\ worker[w].pc = "Failed"
        /\ worker[w].result.kind = "HandshakeInvalidSignatureError"
        /\ \E call \in worker[w].verified :
              call.signature = Corrupt(SignatureOf(call.public_key, call.hash))

\* C6: after a round 1 with a distinct peer, a HandshakeReply whose
\* signature is not the valid signature of the claimed key over the hash of
\* the own random bytes makes the run fail with
\* HandshakeInvalidSignatureError; such a run is never Authenticated.
C6_SignatureIntegrity ==
    [][\A w \in W :
          LET wk == worker[w]
              wk2 == worker'[w]
              valid == SignatureOf(wk.items[1].public_key, Hash(wk.self_random_bytes))
          IN  /\ (/\ wk.pc = "SignatureCheck"
                  /\ wk.items[1].public_key # MalformedKey
                  /\ wk.items[2].signature # valid
                  /\ wk2 # wk)
                 => /\ wk2.pc = "Failed"
                    /\ wk2.result.kind = "HandshakeInvalidSignatureError"
              /\ (wk2.pc = "Authenticated" /\ wk.pc # "Authenticated")
                 => wk.items[2].signature = valid
      ]_vars

C7_Witness ==
    \E w \in W :
        /\ worker[w].pc = "Failed"
        /\ worker[w].rcvd = <<>>
        /\ worker[w].recv = "pending"
        /\ worker[w].send = "done"
        /\ worker[w].failed_in = "Round1"
        /\ worker[w].result.kind = "HandshakeTimeoutError"

\* C7: a run whose peer never sends anything (and whose transport reports
\* no error) ends with HandshakeTimeoutError in round 1; and every run that
\* has started reaches Authenticated or Failed, whatever the peer and the
\* transport do, given that the timer of the round fires (a run never
\* returns to Init, so it is at Init or at its end again and again only if it
\* is never started or it ends).
C7_Termination ==
    /\ [](\A w \in W :
             (/\ worker[w].pc = "Failed"
              /\ worker[w].rcvd = <<>>
              /\ worker[w].recv = "pending"
              /\ worker[w].send # "failed")
             => /\ worker[w].result.kind = "HandshakeTimeoutError"
                /\ worker[w].failed_in = "Round1")
    /\ \A w \in W : []<>(worker[w].pc = "Init" \/ Terminal(w))

C8_Witness ==
    \E w \in W :
        /\ worker[w].pc = "Failed"
        /\ worker[w].failed_in = "Round2"
        /\ worker[w].recv = "eof"
        /\ worker[w].send = "done"
        /\ worker[w].result.kind = "HandshakeInterruptionError"

\* C8 as claimed: a receive that yields the end of the stream makes the run
\* fail with HandshakeInterruptionError, however the send of the round stands.
C8_Original ==
    \A w \in W :
        (worker[w].pc = "Failed" /\ worker[w].recv = "eof")
        => worker[w].result.kind = "HandshakeInterruptionError"

\* C8, amended: in either round, when the receive yields the end of the
\* stream the run fails with HandshakeInterruptionError once the send of the
\* round has completed; it fails with the error of the send when the send
\* fails, and with HandshakeTimeoutError when the send is still pending at
\* the deadline.
C8_Interruption ==
    \A w \in W :
        worker[w].recv = "eof"
        => /\ worker[w].pc \in {"Round1", "Round2", "Failed"}
           /\ worker[w].send = "done" =>
                 /\ worker[w].pc = "Failed"
                 /\ worker[w].result.kind = "HandshakeInterruptionError"
           /\ worker[w].send = "failed" =>
                 /\ worker[w].pc = "Failed"
                 /\ worker[w].result.kind = "SendError"
           /\ worker[w].send = "pending" =>
                 \/ InRound(w)
                 \/ /\ worker[w].pc = "Failed"
                    /\ worker[w].result.kind = "HandshakeTimeoutError"

ErrorKinds ==
    {"HandshakeTimeoutError", "HandshakeInterruptionError",
     "HandshakeWrongMessageError", "HandshakeKeyError",
     "HandshakeInvalidSignatureError", "SendError", "RecvError", "CryptoError"}

C9_Witness ==
    /\ \E w \in W :
          /\ worker[w].pc = "Authenticated"
          /\ worker[w].result.reader = ReadBinder(w)
          /\ worker[w].result.writer = WriteBinder(w)
    /\ \E w \in W :
          /\ worker[w].pc = "Failed"
          /\ worker[w].failed_in = "SignatureCheck"

\* C9: a run that ends in an error reports no peer identity and hands back
\* no transport half; identity and halves are returned only by the run that
\* ends Authenticated, after verify returned true for that identity, and the
\* halves are the ones the worker was constructed with.
C9_FailClosed ==
    \A w \in W :
        /\ worker[w].pc = "Failed" =>
              /\ worker[w].result.kind \in ErrorKinds
              /\ worker[w].result.node_id = "none"
              /\ worker[w].result.reader = NoBinder
              /\ worker[w].result.writer = NoBinder
        /\ worker[w].pc \notin {"Failed", "Authenticated"} =>
              /\ worker[w].result = NoResult
              /\ worker[w].reader = ReadBinder(w)
              /\ worker[w].writer = WriteBinder(w)
        /\ worker[w].pc = "Authenticated" =>
              /\ worker[w].result.kind = "Ok"
              /\ worker[w].result.reader = ReadBinder(w)
              /\ worker[w].result.writer = WriteBinder(w)
              /\ worker[w].result.node_id = worker[w].items[1].public_key
              /\ worker[w].verified =
                    {[hash |-> Hash(worker[w].self_random_bytes),
                      signature |-> worker[w].items[2].signature,
                      public_key |-> worker[w].result.node_id,
                      ok |-> TRUE, valid |-> TRUE]}

PcOrder ==
    <<"Init", "Round1", "IdentityCheck", "Round2", "SignatureCheck", "Authenticated">>

C10_Witness ==
    \E w \in W :
        /\ worker[w].pc = "Round2"
        /\ worker[w].send = "pending"
        /\ worker[w].recv = "msg"
        /\ Terminal(Other(w))

\* C10: the positions of a run follow Init, Round1, IdentityCheck, Round2,
\* SignatureCheck, Authenticated, one step at a time, or leave to Failed;
\* round 2 is entered only with the HandshakeInitiation sent, a
\* HandshakeInitiation received and the received key distinct from the own;
\* no HandshakeReply is sent before round 2; after Authenticated or Failed
\* nothing of the run changes and nothing more is written or read.
C10_Linear ==
    [][\A w \in W :
          LET wk == worker[w]
              wk2 == worker'[w]
          IN  /\ wk2.pc # wk.pc =>
                    /\ ~Terminal(w)
                    /\ \/ wk2.pc = "Failed"
                       \/ \E i \in 1..(Len(PcOrder) - 1) :
                             wk.pc = PcOrder[i] /\ wk2.pc = PcOrder[i + 1]
              /\ Terminal(w) =>
                    /\ wk2 = wk
                    /\ Len(wire'[w]) <= Len(wire[w])
                    /\ inbox'[w] = inbox[w] \/ Len(inbox'[w]) > Len(inbox[w])
              /\ wk2.pc \in {"Round2", "SignatureCheck", "Authenticated"} =>
                    /\ wk2.sent # <<>>
                    /\ wk2.sent[1] = "HandshakeInitiation"
                    /\ wk2.rcvd # <<>>
                    /\ wk2.rcvd[1] = "HandshakeInitiation"
                    /\ wk2.items[1].public_key # wk2.self_node_id
                    /\ wk2.signed # {}
              /\ wk2.pc \in {"Init", "Round1", "IdentityCheck"} =>
                    /\ "HandshakeReply" \notin {wk2.sent[i] : i \in 1..Len(wk2.sent)}
                    /\ Len(wk2.rcvd) <= 1
                    /\ wk2.signed = {}
              /\ wk2.pc = "Failed" =>
                    /\ Len(wk2.sent) <= 2
                    /\ wk2.failed_in \in {"Round1", "IdentityCheck"} =>
                          "HandshakeReply" \notin {wk2.sent[i] : i \in 1..Len(wk2.sent)}
      ]_vars

C11_Witness ==
    /\ \E w \in W :
          /\ worker[w].pc = "Failed"
          /\ worker[w].result.kind = "RecvError"
          /\ worker[w].send = "pending"
    /\ \E w \in W :
          /\ worker[w].pc = "Failed"
          /\ worker[w].result.kind = "SendError"
          /\ worker[w].recv = "pending"
          /\ worker[w].failed_in = "Round2"

\* C11: the step in which the send or the receive of a round reports an
\* error ends the run with that error, in that round, with the other
\* operation left as it stood (pending included) and nothing more sent,
\* received or signed; a run that an error ended in round 1 has signed
\* nothing and sent no HandshakeReply.
C11_ErrorPropagation ==
    [][\A w \in W :
          LET wk == worker[w]
              wk2 == worker'[w]
          IN  /\ (wk.send # "failed" /\ wk2.send = "failed") =>
                    /\ wk.pc \in {"Round1", "Round2"}
                    /\ wk2.pc = "Failed"
                    /\ wk2.result.kind = "SendError"
                    /\ wk2.failed_in = wk.pc
                    /\ wk2.recv = wk.recv
                    /\ wk2.sent = wk.sent
                    /\ wk2.rcvd = wk.rcvd
                    /\ wk2.signed = wk.signed
              /\ (wk.recv # "failed" /\ wk2.recv = "failed") =>
                    /\ wk.pc \in {"Round1", "Round2"}
                    /\ wk2.pc = "Failed"
                    /\ wk2.result.kind = "RecvError"
                    /\ wk2.failed_in = wk.pc
                    /\ wk2.send = wk.send
                    /\ wk2.sent = wk.sent
                    /\ wk2.rcvd = wk.rcvd
                    /\ wk2.signed = wk.signed
              /\ (wk2.result.kind \in {"SendError", "RecvError"} /\ wk2.failed_in = "Round1") =>
                    /\ wk2.signed = {}
                    /\ wk2.sent \in {<<>>, <<"HandshakeInitiation">>}
      ]_vars

C13_Witness ==
    \E w \in W :
        /\ worker[w].result.kind = "HandshakeKeyError"
        /\ worker[w].signed = {}
        /\ worker[w].verified = {}
        /\ worker[w].sent = <<"HandshakeInitiation">>
        /\ worker[w].rcvd = <<"HandshakeInitiation">>

\* C13: a run that holds a round-1 public key equal to its own has called
\* neither sign nor verify and has sent no HandshakeReply, and its next step
\* leaves it so; sign is called only in the step that has compared the node
\* ids and found them distinct, so no run ever signs for, verifies against
\* or replies to its own key.
C13_IdentityBeforeCrypto ==
    [][\A w \in W :
          LET wk == worker[w]
              wk2 == worker'[w]
              own == /\ wk.items # <<>>
                     /\ wk.items[1].type = "HandshakeInitiation"
                     /\ wk.items[1].public_key = wk.self_node_id
          IN  /\ own =>
                    /\ wk.signed = {} /\ wk2.signed = {}
                    /\ wk.verified = {} /\ wk2.verified = {}
                    /\ wk2.sent \in {<<>>, <<"HandshakeInitiation">>}
                    /\ wk2.pc \in {"Round1", "IdentityCheck", "Failed"}
                    /\ wk.pc = "IdentityCheck" =>
                          /\ wk2 # wk => wk2.result.kind = "HandshakeKeyError"
                          /\ wk2.sent = <<"HandshakeInitiation">>
              /\ wk2.signed # wk.signed =>
                    /\ wk.pc = "IdentityCheck"
                    /\ wk.other_node_id # wk.self_node_id
                    /\ wk.verified = {}
              /\ \A call \in wk2.signed : call.peer # wk2.self_node_id
              /\ \A call \in wk2.verified : call.public_key # wk2.self_node_id
              /\ wk2.verified # {} => wk2.signed # {}
              /\ Len(wk2.sent) = 2 => wk2.signed # {}
      ]_vars

C14_Witness ==
    /\ link = "rendezvous"
    /\ \E w \in W :
          /\ worker[w].sent = <<"HandshakeInitiation", "HandshakeReply">>
          /\ worker[w].rcvd = <<"HandshakeInitiation">>
          /\ worker[Other(w)].pc = "Round2"
          /\ worker[Other(w)].recv = "msg"
          /\ worker[Other(w)].send = "pending"

\* C14: two nodes with distinct key pairs, on a buffered link or on a
\* channel where a send completes only in the step in which the peer
\* receives, with no timer: as long as a run has not ended some step of a
\* run or of the channel is possible, every pending send of a round
\* completes, whether or not the message of the peer for that round has been
\* received, and both runs end.
C14_NoSymmetricDeadlock ==
    /\ []((\E w \in W : ~Terminal(w)) => ENABLED NextChannel)
    /\ \A w \in W : (worker[w].send = "pending") ~> (worker[w].send = "done")
    /\ \A w \in W : <>Terminal(w)

C16_Witness ==
    \E w \in W :
        /\ link = "attacker"
        /\ worker[w].pc = "Authenticated"
        /\ worker[w].sent = <<"HandshakeInitiation", "HandshakeReply">>
        /\ worker[w].rcvd = <<"HandshakeInitiation", "HandshakeReply">>
        /\ worker[Other(w)].pc = "Failed"
        /\ worker[Other(w)].sent = <<"HandshakeInitiation">>
        /\ worker[Other(w)].send = "pending"

\* C16: a run has sent nothing, a HandshakeInitiation, or a
\* HandshakeInitiation and then a HandshakeReply, the latter only from round
\* 2 on, and has taken at most two messages from its read half, at most one
\* before round 2; a run that ends Authenticated has sent exactly the two
\* and taken exactly two, with no send pending; on a link between two
\* workers what a run has sent is what its peer has taken, has waiting or is
\* still on the wire.
C16_MessageFootprint ==
    \A w \in W :
        LET wk == worker[w]
        IN  /\ wk.sent \in {<<>>, <<"HandshakeInitiation">>,
                            <<"HandshakeInitiation", "HandshakeReply">>}
            /\ Len(wk.rcvd) <= 2
            /\ wk.pc = "Init" => wk.sent = <<>> /\ wk.rcvd = <<>>
            /\ wk.pc \in {"Round1", "IdentityCheck"} =>
                  Len(wk.sent) <= 1 /\ Len(wk.rcvd) <= 1
            /\ (wk.pc = "Failed" /\ wk.failed_in \in {"Round1", "IdentityCheck"}) =>
                  Len(wk.sent) <= 1 /\ Len(wk.rcvd) <= 1
            /\ wk.send = "pending" => Len(wk.sent) = (IF wk.pc = "Round1" \/ wk.failed_in = "Round1" THEN 0 ELSE 1)
            /\ wk.pc = "Authenticated" =>
                  /\ wk.sent = <<"HandshakeInitiation", "HandshakeReply">>
                  /\ Len(wk.rcvd) = 2
                  /\ wk.send = "done"
                  /\ wk.recv = "msg"
            /\ link = "direct" =>
                  Len(wk.sent) = Len(worker[Other(w)].rcvd) + Len(inbox[Other(w)]) + Len(wire[w])

C17_Witness ==
    \E w \in W :
        /\ link = "direct"
        /\ worker[w].pc = "Authenticated"
        /\ worker[Other(w)].pc = "Failed"
        /\ worker[Other(w)].failed_in = "Round2"
        /\ worker[Other(w)].result.kind = "HandshakeTimeoutError"
        /\ worker[Other(w)].sent = <<"HandshakeInitiation", "HandshakeReply">>

\* C17 as claimed: on a link between two workers, when one run has ended
\* Authenticated the other has completed round 1, passed its identity check
\* and sent its HandshakeReply, and from then on it does not fail.
C17_Original ==
    [][\A w \in W :
          (link = "direct" /\ worker[w].pc = "Authenticated") =>
              /\ worker[Other(w)].sent = <<"HandshakeInitiation", "HandshakeReply">>
              /\ worker[Other(w)].signed # {}
              /\ worker[Other(w)].pc # "Failed" => worker'[Other(w)].pc # "Failed"
      ]_vars

\* C17, amended: on a link between two workers, when one run has ended
\* Authenticated the other has completed round 1, passed its identity check
\* (signing for the node id of the first) and sent its HandshakeReply; it
\* can still fail, but only in round 2, before it has received the
\* HandshakeReply, by the expiry of its deadline or an error of its receive:
\* once it has received the HandshakeReply it ends Authenticated, with the
\* node id of the first.
C17_Agreement ==
    \A w \in W :
        LET wk == worker[w]
            pr == worker[Other(w)]
        IN  (link = "direct" /\ wk.pc = "Authenticated") =>
                /\ pr.sent = <<"HandshakeInitiation", "HandshakeReply">>
                /\ pr.send = "done"
                /\ pr.rcvd[1] = "HandshakeInitiation"
                /\ pr.signed = {[hash |-> Hash(wk.self_random_bytes),
                                 key |-> PrivateKeyOf(wk.result.node_id),
                                 peer |-> wk.self_node_id]}
                /\ pr.pc \in {"Round2", "SignatureCheck", "Authenticated", "Failed"}
                /\ pr.pc = "Failed" =>
                      /\ pr.failed_in = "Round2"
                      /\ pr.rcvd = <<"HandshakeInitiation">>
                      /\ pr.result.kind \in {"HandshakeTimeoutError", "RecvError"}
                /\ Len(pr.rcvd) = 2 =>
                      /\ pr.pc \in {"SignatureCheck", "Authenticated"}
                      /\ pr.other_signature = SignatureOf(wk.self_node_id, Hash(pr.self_random_bytes))
                /\ pr.pc = "Authenticated" => pr.result.node_id = wk.self_node_id

C18_Witness ==
    /\ link = "attacker"
    /\ \E w \in W :
          /\ worker[w].result.kind = "HandshakeWrongMessageError"
          /\ worker[w].failed_in = "Round2"
    /\ \E w \in W :
          /\ worker[w].result.kind = "HandshakeInterruptionError"
          /\ worker[w].failed_in = "Round1"

\* C18: the step that ends a run with HandshakeKeyError finds round 1
\* completed and the received public key equal to the own; with
\* HandshakeInvalidSignatureError, both rounds completed, the keys distinct
\* and verify returning Ok(false); with HandshakeWrongMessageError, the send
\* of the round completed and a message received that is not the variant of
\* the round; with HandshakeInterruptionError, the send of the round
\* completed and the receive yielding the end of the stream.  A run has a
\* result exactly when it has ended, Ok exactly when Authenticated, and the
\* result never changes.
C18_ErrorKinds ==
    [][\A w \in W :
          LET wk == worker[w]
              wk2 == worker'[w]
              ends == wk.pc # "Failed" /\ wk2.pc = "Failed"
              expected == IF wk.pc = "Round1" THEN "HandshakeInitiation" ELSE "HandshakeReply"
          IN  /\ (ends /\ wk2.result.kind = "HandshakeKeyError") =>
                    /\ wk.pc = "IdentityCheck"
                    /\ wk.send = "done" /\ wk.recv = "msg"
                    /\ wk.rcvd = <<"HandshakeInitiation">>
                    /\ wk.items[1].public_key = wk.self_node_id
              /\ (ends /\ wk2.result.kind = "HandshakeInvalidSignatureError") =>
                    /\ wk.pc = "SignatureCheck"
                    /\ wk.send = "done" /\ wk.recv = "msg"
                    /\ wk.sent = <<"HandshakeInitiation", "HandshakeReply">>
                    /\ wk.rcvd = <<"HandshakeInitiation", "HandshakeReply">>
                    /\ wk.items[1].public_key # wk.self_node_id
                    /\ wk2.verified = {[hash |-> Hash(wk.self_random_bytes),
                                        signature |-> wk.items[2].signature,
                                        public_key |-> wk.items[1].public_key,
                                        ok |-> TRUE, valid |-> FALSE]}
              /\ (ends /\ wk2.result.kind = "HandshakeWrongMessageError") =>
                    /\ wk.pc \in {"Round1", "Round2"}
                    /\ wk2.send = "done" /\ wk2.recv = "msg"
                    /\ wk2.rcvd # <<>>
                    /\ wk2.rcvd[Len(wk2.rcvd)] # expected
                    /\ Len(wk2.rcvd) = (IF wk.pc = "Round1" THEN 1 ELSE 2)
              /\ (ends /\ wk2.result.kind = "HandshakeInterruptionError") =>
                    /\ wk.pc \in {"Round1", "Round2"}
                    /\ wk2.send = "done" /\ wk2.recv = "eof"
                    /\ Len(wk2.rcvd) = (IF wk.pc = "Round1" THEN 0 ELSE 1)
              /\ wk2.result.kind # "none" <=> wk2.pc \in {"Authenticated", "Failed"}
              /\ wk2.result.kind = "Ok" <=> wk2.pc = "Authenticated"
              /\ wk2.pc = "Failed" <=> wk2.result.kind \in ErrorKinds
              /\ wk.result.kind # "none" => wk2.result = wk.result
      ]_vars

====
